---- MODULE Spec2Model ----
(***************************************************************************)
(* Model of summarizer.py: the linear pipeline                             *)
(*   load articles -> filter by content length -> validate the OpenAI key  *)
(*   -> summarize each of the first NUM_ARTICLES_TO_PROCESS articles ->    *)
(*   write summarized_articles.json -> print the report.                   *)
(* The script is one sequential program; `pc` is its position, and every   *)
(* action is one straight-line stretch of the script between two points    *)
(* where the environment (HTTP server, file system, completion endpoint)   *)
(* decides an outcome.                                                     *)
(***************************************************************************)
EXTENDS Integers, Sequences, FiniteSets, TLC

(***************************************************************************)
(* Bounds of the model and constants of the program.                       *)
(***************************************************************************)
MaxFree == 2
MaxArticles == 6

MIN_CONTENT_LENGTH == 300
NUM_ARTICLES_TO_PROCESS == 5

(***************************************************************************)
(* Python values.  A value carries its type, so that None, a string and a  *)
(* list are never confused.                                                *)
(***************************************************************************)
PyNone == [t |-> "none"]
PyStr(s) == [t |-> "str", v |-> s]
PyList(l) == [t |-> "list", v |-> l]

\* dict.get(key, default)
Get(d, k, default) == IF k \in DOMAIN d THEN d[k] ELSE default

\* bool(value) for the values above
Truthy(x) == x.t # "none" /\ Len(x.v) > 0

\* whether value[:n] is defined: None is not subscriptable
Sliceable(x) == x.t # "none"

Min(a, b) == IF a < b THEN a ELSE b
Take(s, n) == SubSeq(s, 1, Min(n, Len(s)))

(***************************************************************************)
(* Strings of the lengths the filter distinguishes.                        *)
(***************************************************************************)
S10 == "0123456789"
S50 == S10 \o S10 \o S10 \o S10 \o S10
S250 == S50 \o S50 \o S50 \o S50 \o S50
S299 == S250 \o SubSeq(S50, 1, 49)
S300 == S250 \o S50
S400 == S300 \o S50 \o S50

(***************************************************************************)
(* Configuration strings.                                                  *)
(***************************************************************************)
NdhPlaceholder == "your_ndh_api_key_here"
OpenAIPlaceholder == "your_openai_api_key_here"
NdhKeys == {"", NdhPlaceholder, "ndh-live-key"}
OpenAIKeys == {"", OpenAIPlaceholder, "sk-live-key"}
\* values MIN_CONTENT_LENGTH is edited to; the script ships with the second
Thresholds == {0, MIN_CONTENT_LENGTH}

(***************************************************************************)
(* Source articles: dicts from a subset of the field names to values.  A   *)
(* field is either absent or holds a value of its type (a string; for      *)
(* topics a list of strings).                                              *)
(***************************************************************************)
MetaFields == {"id", "title", "source_title", "pub_date", "article_link", "language", "topics"}

Digit(p) == SubSeq(S10, p + 1, p + 1)

MetaValue(p, k) ==
  CASE k = "id" -> PyStr("id-" \o Digit(p))
    [] k = "title" -> PyStr("Title " \o Digit(p))
    [] k = "source_title" -> PyStr("Source " \o Digit(p))
    [] k = "pub_date" -> PyStr("2025-01-0" \o Digit(p) \o "T08:30:00Z")
    [] k = "article_link" -> PyStr("https://news.example/" \o Digit(p))
    [] k = "language" -> PyStr("en")
    [] k = "topics" -> PyList(<<"politics", "world">>)

\* The article at position p of a list: `content` is <<>> (no content key) or
\* <<s>> (content s), `keys` the metadata fields that are present.
MkArticle(p, content, keys) ==
  [k \in keys \cup (IF content = <<>> THEN {} ELSE {"content"}) |->
     IF k = "content" THEN PyStr(content[1]) ELSE MetaValue(p, k)]

Contents == {<<>>, <<"">>, <<S250>>, <<S299>>, <<S300>>, <<S400>>}
MetaSets == {MetaFields, {}} \cup {MetaFields \ {k} : k \in MetaFields}
AllShapes == Contents \X MetaSets

ShortShape == <<<<S250>>, MetaFields>>
LongShape == <<<<S400>>, MetaFields>>
ExactShape == <<<<S300>>, {}>>
NoContentShape == <<<<>>, MetaFields>>
CoreShapes == {ShortShape, LongShape, ExactShape, NoContentShape}

ListOf(n, shapes) == [p \in 1..n |-> MkArticle(p, shapes[p][1], shapes[p][2])]

\* A list of n articles that all pass the filter, except the one at `skip`.
Pattern(n, skip) ==
  ListOf(n, [p \in 1..n |-> IF p = skip THEN ShortShape
                            ELSE IF p % 2 = 1 THEN LongShape ELSE ExactShape])

SingleLists == {ListOf(1, <<sh>>) : sh \in AllShapes}
FreeLists == UNION {{ListOf(n, sh) : sh \in [1..n -> CoreShapes]} : n \in 0..MaxFree}
LongLists == {Pattern(n, skip) : n \in (MaxFree + 1)..MaxArticles, skip \in {0, 2}}
ArticleLists == SingleLists \cup FreeLists \cup LongLists

(***************************************************************************)
(* JSON documents: a list, an object, or any other value.                  *)
(***************************************************************************)
ListDoc(l) == [kind |-> "list", items |-> l]
DictDoc(d) == [kind |-> "dict", d |-> d]
ScalarDoc == [kind |-> "scalar"]
NoDataDoc == DictDoc([status |-> "ok"])
DocsOf(lists) == {ListDoc(l) : l \in lists} \cup {DictDoc([data |-> l]) : l \in lists}
                   \cup {ScalarDoc, NoDataDoc}

\* what the news endpoint answers: an object, with or without `data`
ApiDocs == {DictDoc([data |-> l]) : l \in ArticleLists} \cup {NoDataDoc}
\* what the sample URL serves
SampleDocs == DocsOf(SingleLists \cup FreeLists \cup {Pattern(MaxArticles, 0)})
\* what an earlier run or the user left in sample-news-data.json
CachedDocs == DocsOf({<<>>, Pattern(MaxFree, 0)})

NoFile == [kind |-> "nofile"]

\* summarized_articles.json left by an earlier run
OldOutput == [complete |-> TRUE, recs |-> <<[ai_summary |-> "old"]>>]

VARIABLES
  pc,          \* position in the script
  status,      \* "running", or how the process ended
  ndhKey,      \* NDH_API_KEY
  openaiKey,   \* OPENAI_API_KEY
  minLen,      \* MIN_CONTENT_LENGTH
  sampleFile,  \* sample-news-data.json on disk
  outFile,     \* summarized_articles.json on disk
  articles, filtered, summarized,
  i,           \* articles the processing loop has taken
  summary,     \* the summary of the article in hand
  reported,    \* records the report has printed
  calls,       \* history: articles a completion request was issued for
  failedCalls, \* history: articles whose completion request failed
  downloads,   \* history: sample downloads
  steps,       \* history: steps the run has entered
  sample0, out0 \* history: the two files as the run found them

vars == <<pc, status, ndhKey, openaiKey, minLen, sampleFile, outFile, articles, filtered,
          summarized, i, summary, reported, calls, failedCalls, downloads, steps,
          sample0, out0>>


(***************************************************************************)
(* Pure steps of the script.                                               *)
(***************************************************************************)
\* line 53
HasNdhKey == ndhKey # "" /\ ndhKey # NdhPlaceholder

\* OpenAIKeyMissing without the placeholder test
OpenAIKeyEmpty == openaiKey = ""

\* line 130
OpenAIKeyMissing == openaiKey = "" \/ openaiKey = OpenAIPlaceholder

\* lines 94-99: the article list of a parsed sample document, if it has one
SampleShapeOk(doc) ==
  \/ doc.kind = "dict" /\ "data" \in DOMAIN doc.d
  \/ doc.kind = "list"

ParseSample(doc) ==
  IF doc.kind = "dict" /\ "data" \in DOMAIN doc.d THEN doc.d["data"]
  ELSE doc.items

\* line 71: data.get("data", [])
ParseLive(doc) == Get(doc.d, "data", <<>>)

\* Keeps with the comparison made strict
KeepsStrictlyLonger(article, threshold) ==
  LET content == Get(article, "content", PyStr(""))
  IN  Truthy(content) /\ Len(content.v) > threshold

\* lines 111-112
Keeps(article, threshold) ==
  LET content == Get(article, "content", PyStr(""))
  IN  Truthy(content) /\ Len(content.v) >= threshold

\* lines 109-113: the loop over articles[k..], appending to acc
RECURSIVE FilterLoop(_, _, _, _)
FilterLoop(arts, threshold, k, acc) ==
  IF k > Len(arts) THEN acc
  ELSE FilterLoop(arts, threshold, k + 1,
                  IF Keeps(arts[k], threshold) THEN Append(acc, arts[k]) ELSE acc)

FilterArticles(arts, threshold) == FilterLoop(arts, threshold, 1, <<>>)

\* str.strip() for the whitespace the model's strings hold
RECURSIVE StripLeft(_)
StripLeft(s) ==
  IF Len(s) > 0 /\ SubSeq(s, 1, 1) = " " THEN StripLeft(SubSeq(s, 2, Len(s))) ELSE s

RECURSIVE StripRight(_)
StripRight(s) ==
  IF Len(s) > 0 /\ SubSeq(s, Len(s), Len(s)) = " "
  THEN StripRight(SubSeq(s, 1, Len(s) - 1)) ELSE s

Strip(s) == StripRight(StripLeft(s))

\* what the completion endpoint answers, and the exceptions the request raises
ResponseTexts == {"  The article reports the main event. "}
ErrorMessages == {"Connection error."}
ErrorPrefix == "Error generating summary: "

\* line 170
SummaryOf(text) == Strip(text)

\* lines 173-174
ErrorSummary(msg) == ErrorPrefix \o msg

\* create_summary_output measuring the summary instead of the content
create_summary_output_summary_length(article, s) ==
  [id |-> Get(article, "id", PyNone),
   title |-> Get(article, "title", PyNone),
   source |-> Get(article, "source_title", PyNone),
   published |-> Get(article, "pub_date", PyNone),
   url |-> Get(article, "article_link", PyNone),
   language |-> Get(article, "language", PyNone),
   topics |-> Get(article, "topics", PyList(<<>>)),
   original_content_length |-> Len(s),
   ai_summary |-> s]

\* lines 181-202
create_summary_output(article, s) ==
  [id |-> Get(article, "id", PyNone),
   title |-> Get(article, "title", PyNone),
   source |-> Get(article, "source_title", PyNone),
   published |-> Get(article, "pub_date", PyNone),
   url |-> Get(article, "article_link", PyNone),
   language |-> Get(article, "language", PyNone),
   topics |-> Get(article, "topics", PyList(<<>>)),
   original_content_length |-> Len(Get(article, "content", PyStr("")).v),
   ai_summary |-> s]

\* Batch with the slice one too long
BatchOneTooMany == Take(filtered, NUM_ARTICLES_TO_PROCESS + 1)

\* line 215: filtered_articles[:NUM_ARTICLES_TO_PROCESS]
Batch == Take(filtered, NUM_ARTICLES_TO_PROCESS)

\* line 261: records whose published date cannot be sliced
Unprintable == {r \in 1..Len(summarized) : ~Sliceable(summarized[r].published)}

(***************************************************************************)
(* The run.                                                                *)
(***************************************************************************)
Init ==
  /\ pc = "load"
  /\ status = "running"
  /\ ndhKey \in NdhKeys
  /\ openaiKey \in OpenAIKeys
  /\ minLen \in Thresholds
  \* the sample file is only looked at when there is no news key
  /\ sampleFile \in IF ndhKey \in {"", NdhPlaceholder} THEN {NoFile} \cup CachedDocs ELSE {NoFile}
  /\ outFile \in {NoFile, OldOutput}
  /\ articles = <<>>
  /\ filtered = <<>>
  /\ summarized = <<>>
  /\ i = 0
  /\ summary = ""
  /\ reported = 0
  /\ calls = <<>>
  /\ failedCalls = {}
  /\ downloads = 0
  /\ steps = {}
  /\ sample0 = sampleFile
  /\ out0 = outFile

Halt(how) == pc' = "halted" /\ status' = how

Enter(step) == steps' = steps \cup {step}

\* lines 53-72: one GET to the news endpoint; raise_for_status propagates
FetchLive ==
  /\ pc = "load" /\ HasNdhKey
  /\ Enter("load")
  /\ \/ \E doc \in ApiDocs :
          /\ articles' = ParseLive(doc)
          /\ pc' = "filter" /\ UNCHANGED status
     \/ Halt("HTTPError") /\ UNCHANGED articles
  /\ UNCHANGED <<ndhKey, openaiKey, minLen, sampleFile, outFile, filtered, summarized, i,
                 summary, reported, calls, failedCalls, downloads, sample0, out0>>

\* EnsureSample without the os.path.exists test
EnsureSampleAlwaysDownloads ==
  /\ pc = "load" /\ ~HasNdhKey
  /\ Enter("load")
  /\ \/ \E doc \in SampleDocs :
          /\ sampleFile' = doc
          /\ downloads' = downloads + 1
          /\ pc' = "read_sample" /\ UNCHANGED status
     \/ /\ downloads' = downloads + 1
        /\ Halt("HTTPError") /\ UNCHANGED sampleFile
  /\ UNCHANGED <<ndhKey, openaiKey, minLen, outFile, articles, filtered, summarized, i,
                 summary, reported, calls, failedCalls, sample0, out0>>

\* lines 74-87: download the sample file if it is not on disk
EnsureSample ==
  /\ pc = "load" /\ ~HasNdhKey
  /\ Enter("load")
  /\ IF sampleFile = NoFile
     THEN \/ \E doc \in SampleDocs :
               /\ sampleFile' = doc
               /\ downloads' = downloads + 1
               /\ pc' = "read_sample" /\ UNCHANGED status
          \/ /\ downloads' = downloads + 1
             /\ Halt("HTTPError") /\ UNCHANGED sampleFile
     ELSE pc' = "read_sample" /\ UNCHANGED <<status, sampleFile, downloads>>
  /\ UNCHANGED <<ndhKey, openaiKey, minLen, outFile, articles, filtered, summarized, i,
                 summary, reported, calls, failedCalls, sample0, out0>>

\* lines 89-101: read the sample file and take its article list
ReadSample ==
  /\ pc = "read_sample"
  /\ IF SampleShapeOk(sampleFile)
     THEN /\ articles' = ParseSample(sampleFile)
          /\ pc' = "filter" /\ UNCHANGED status
     ELSE Halt("ValueError") /\ UNCHANGED articles
  /\ UNCHANGED <<ndhKey, openaiKey, minLen, sampleFile, outFile, filtered, summarized, i,
                 summary, reported, calls, failedCalls, downloads, steps, sample0, out0>>

\* lines 107-116
Filter ==
  /\ pc = "filter"
  /\ Enter("filter")
  /\ filtered' = FilterArticles(articles, minLen)
  /\ pc' = "check_empty"
  /\ UNCHANGED <<status, ndhKey, openaiKey, minLen, sampleFile, outFile, articles, summarized,
                 i, summary, reported, calls, failedCalls, downloads, sample0, out0>>

\* NothingToSummarize with the wrong comparison
NothingToSummarizeBelowZero == Len(filtered) < 0

\* line 118
NothingToSummarize == Len(filtered) = 0

\* lines 118-121
CheckEmpty ==
  /\ pc = "check_empty"
  /\ IF NothingToSummarize
     THEN Halt("exit(1)")
     ELSE pc' = "validate_key" /\ UNCHANGED status
  /\ UNCHANGED <<ndhKey, openaiKey, minLen, sampleFile, outFile, articles, filtered, summarized,
                 i, summary, reported, calls, failedCalls, downloads, steps, sample0, out0>>

\* lines 127-139
ValidateKey ==
  /\ pc = "validate_key"
  /\ Enter("validate_key")
  /\ IF OpenAIKeyMissing
     THEN Halt("exit(1)")
     ELSE pc' = "loop" /\ UNCHANGED status
  /\ UNCHANGED <<ndhKey, openaiKey, minLen, sampleFile, outFile, articles, filtered, summarized,
                 i, summary, reported, calls, failedCalls, downloads, sample0, out0>>

\* line 215: the articles the loop has still to take
LoopHasNext == i < Len(Batch)

\* lines 215-224 and 154: take the next article and issue its completion request
LoopNext ==
  /\ pc = "loop" /\ LoopHasNext
  /\ Enter("loop")
  /\ i' = i + 1
  /\ IF Sliceable(Get(Batch[i + 1], "title", PyStr("N/A")))
     THEN /\ calls' = Append(calls, i + 1)
          /\ pc' = "call" /\ UNCHANGED status
     ELSE Halt("TypeError") /\ UNCHANGED calls
  /\ UNCHANGED <<ndhKey, openaiKey, minLen, sampleFile, outFile, articles, filtered, summarized,
                 summary, reported, downloads, sample0, out0, failedCalls>>

\* lines 215, 233-235: the batch is exhausted
LoopExit ==
  /\ pc = "loop" /\ ~LoopHasNext
  /\ Enter("loop")
  /\ pc' = "write_open"
  /\ UNCHANGED <<status, ndhKey, openaiKey, minLen, sampleFile, outFile, articles, filtered,
                 summarized, i, summary, reported, calls, failedCalls, downloads, sample0, out0>>

\* lines 154-171: the request returns a completion
CallOk ==
  /\ pc = "call"
  /\ \E text \in ResponseTexts : summary' = SummaryOf(text)
  /\ UNCHANGED failedCalls
  /\ pc' = "assemble"
  /\ UNCHANGED <<status, ndhKey, openaiKey, minLen, sampleFile, outFile, articles, filtered,
                 summarized, i, reported, calls, downloads, steps, sample0, out0>>

\* CallFail answering the exception with a second request for the same article
CallFailRetries ==
  /\ pc = "call"
  /\ failedCalls' = failedCalls \cup {i}
  /\ calls' = Append(calls, i)
  /\ UNCHANGED <<pc, status, ndhKey, openaiKey, minLen, sampleFile, outFile, articles, filtered,
                 summarized, i, summary, reported, downloads, steps, sample0, out0>>

\* CallFail without the try/except: the exception leaves the script
CallFailPropagates ==
  /\ pc = "call"
  /\ failedCalls' = failedCalls \cup {i}
  /\ Halt("APIError")
  /\ UNCHANGED <<ndhKey, openaiKey, minLen, sampleFile, outFile, articles, filtered,
                 summarized, i, summary, reported, calls, downloads, steps, sample0, out0>>

\* lines 154, 173-174: the request, or reading its response, raises inside the
\* try; the except clause turns the exception into the summary
CallFail ==
  /\ pc = "call"
  /\ \E msg \in ErrorMessages : summary' = ErrorSummary(msg)
  /\ failedCalls' = failedCalls \cup {i}
  /\ pc' = "assemble"
  /\ UNCHANGED <<status, ndhKey, openaiKey, minLen, sampleFile, outFile, articles, filtered,
                 summarized, i, reported, calls, downloads, steps, sample0, out0>>

\* lines 226-231
Assemble ==
  /\ pc = "assemble"
  /\ summarized' = Append(summarized, create_summary_output(Batch[i], summary))
  /\ pc' = "loop"
  /\ UNCHANGED <<status, ndhKey, openaiKey, minLen, sampleFile, outFile, articles, filtered,
                 i, summary, reported, calls, failedCalls, downloads, steps, sample0, out0>>

\* line 243: open(output_file, "w") creates or truncates the file, or raises
WriteOpen ==
  /\ pc = "write_open"
  /\ Enter("write")
  /\ \/ /\ outFile' = [complete |-> FALSE, recs |-> <<>>]
        /\ pc' = "write_dump" /\ UNCHANGED status
     \/ Halt("OSError") /\ UNCHANGED outFile
  /\ UNCHANGED <<ndhKey, openaiKey, minLen, sampleFile, articles, filtered, summarized, i,
                 summary, reported, calls, failedCalls, downloads, sample0, out0>>

\* lines 244-248: json.dump streams the records into the open file
WriteDump ==
  /\ pc = "write_dump"
  /\ \/ /\ outFile' = [complete |-> TRUE, recs |-> summarized]
        /\ pc' = "report" /\ UNCHANGED status
     \/ \E k \in 0..(Len(summarized) - 1) :
          /\ outFile' = [complete |-> FALSE, recs |-> SubSeq(summarized, 1, k)]
          /\ Halt("OSError")
  /\ UNCHANGED <<ndhKey, openaiKey, minLen, sampleFile, articles, filtered, summarized, i,
                 summary, reported, calls, failedCalls, downloads, steps, sample0, out0>>

\* lines 254-289: one block per record, then the closing lines
Report ==
  /\ pc = "report"
  /\ Enter("report")
  /\ IF Unprintable = {}
     THEN reported' = Len(summarized) /\ Halt("ok")
     ELSE /\ reported' = (CHOOSE r \in Unprintable : \A q \in Unprintable : r <= q) - 1
          /\ Halt("TypeError")
  /\ UNCHANGED <<ndhKey, openaiKey, minLen, sampleFile, outFile, articles, filtered, summarized,
                 i, summary, calls, failedCalls, downloads, sample0, out0>>

Next ==
  \/ FetchLive
  \/ EnsureSample
  \/ ReadSample
  \/ Filter
  \/ CheckEmpty
  \/ ValidateKey
  \/ LoopNext
  \/ LoopExit
  \/ CallOk
  \/ CallFail
  \/ Assemble
  \/ WriteOpen
  \/ WriteDump
  \/ Report

Spec == Init /\ [][Next]_vars

\* The interpreter runs the script to its end: no step waits forever.
FairSpec == Spec /\ WF_vars(Next)


(***************************************************************************)
(* Vocabulary of the properties.                                           *)
(***************************************************************************)
FilterDone == "filter" \in steps
LoopEnded == "write" \in steps \/ pc = "write_open"
Halted(how) == pc = "halted" /\ status = how
StartsWith(s, prefix) == Len(s) >= Len(prefix) /\ SubSeq(s, 1, Len(prefix)) = prefix

\* the articles a filter with threshold t has to keep, by position
Qualifying(t) ==
  {k \in 1..Len(articles) :
     /\ "content" \in DOMAIN articles[k]
     /\ Len(articles[k]["content"].v) > 0
     /\ Len(articles[k]["content"].v) >= t}

\* the position in `articles` of the n-th article to keep
NthQualifying(t, n) ==
  CHOOSE k \in Qualifying(t) : Cardinality({q \in Qualifying(t) : q <= k}) = n

(***************************************************************************)
(* C1: once the filter step has run, the filtered list is exactly the      *)
(* subsequence of the loaded articles whose content is non-empty and at    *)
(* least the threshold long: as many entries as there are such articles,   *)
(* and the n-th entry is the n-th such article, in input order.            *)
(***************************************************************************)
C1_FilterKeepsExactlyTheLongEnough ==
  FilterDone =>
    /\ Len(filtered) = Cardinality(Qualifying(minLen))
    /\ \A n \in 1..Len(filtered) : filtered[n] = articles[NthQualifying(minLen, n)]

\* the 250/400 scenario at threshold 300: only the 400-character article is kept
C1_Witness ==
  /\ FilterDone
  /\ minLen = MIN_CONTENT_LENGTH
  /\ Len(articles) = 2
  /\ \A k \in 1..2 : "content" \in DOMAIN articles[k]
  /\ articles[1]["content"].v = S250
  /\ articles[2]["content"].v = S400
  /\ filtered = <<articles[2]>>

(***************************************************************************)
(* C2: when the filter step yields no article, the run ends with exit      *)
(* status 1 at the emptiness test: the key validation, the processing loop *)
(* and every later step are never entered and no completion request is     *)
(* issued.                                                                 *)
(***************************************************************************)
C2_EmptyFilterStopsTheRun ==
  (FilterDone /\ Len(filtered) = 0) =>
    /\ calls = <<>>
    /\ steps \subseteq {"load", "filter"}
    /\ pc \in {"check_empty", "halted"}
    /\ pc = "halted" => status = "exit(1)"

C2_Witness ==
  /\ FilterDone
  /\ Len(articles) > 0
  /\ Len(filtered) = 0
  /\ openaiKey = "sk-live-key"
  /\ Halted("exit(1)")

(***************************************************************************)
(* C3: with OPENAI_API_KEY empty or left at its placeholder, no completion *)
(* request is ever issued and the processing loop is never entered; once   *)
(* the key validation has run the process has exited with status 1.        *)
(***************************************************************************)
C3_MissingKeyNoCompletionCall ==
  openaiKey \in {"", OpenAIPlaceholder} =>
    /\ calls = <<>>
    /\ pc \notin {"loop", "call", "assemble", "write_open", "write_dump", "report"}
    /\ "validate_key" \in steps => Halted("exit(1)")

C3_Witness ==
  /\ openaiKey = OpenAIPlaceholder
  /\ "validate_key" \in steps
  /\ Len(filtered) > 0
  /\ Halted("exit(1)")

(***************************************************************************)
(* C4: a completion request that fails does not end the run.  The article  *)
(* it was issued for gets a record whose ai_summary begins with "Error     *)
(* generating summary:", the loop goes on until every article of the batch *)
(* has its record, and the run reaches the write step and, the writer not  *)
(* raising, the report step.                                               *)
(***************************************************************************)
C4_FailedCallIsIsolated ==
  /\ [](\A k \in failedCalls :
          k <= Len(summarized) =>
            StartsWith(summarized[k].ai_summary, "Error generating summary:"))
  /\ (failedCalls # {}) ~>
       /\ Len(summarized) = Len(Batch)
       /\ "write" \in steps
       /\ "report" \in steps \/ Halted("OSError")

\* a failed call, a later article processed after it, and the report reached
C4_Witness ==
  /\ \E k \in failedCalls : k < Len(summarized) /\ (k + 1) \notin failedCalls
  /\ "report" \in steps

(***************************************************************************)
(* C5: at every point of the run the output list is the image, in order,   *)
(* of a prefix of the filtered list: record n carries the metadata of      *)
(* filtered article n, the list is never longer than                       *)
(* NUM_ARTICLES_TO_PROCESS nor than the filtered list, and once the loop   *)
(* has ended it is exactly as long as the smaller of the two.              *)
(***************************************************************************)
BuiltFrom(record, article) ==
  /\ record.id = Get(article, "id", PyNone)
  /\ record.title = Get(article, "title", PyNone)
  /\ record.source = Get(article, "source_title", PyNone)
  /\ record.published = Get(article, "pub_date", PyNone)
  /\ record.url = Get(article, "article_link", PyNone)
  /\ record.language = Get(article, "language", PyNone)

C5_OutputIsPrefixOfFiltered ==
  /\ Len(summarized) <= NUM_ARTICLES_TO_PROCESS
  /\ Len(summarized) <= Len(filtered)
  /\ \A n \in 1..Len(summarized) : BuiltFrom(summarized[n], filtered[n])
  /\ LoopEnded => Len(summarized) = Min(NUM_ARTICLES_TO_PROCESS, Len(filtered))

\* more filtered articles than the loop may take, and the loop has ended
C5_Witness ==
  /\ LoopEnded
  /\ Len(filtered) > NUM_ARTICLES_TO_PROCESS
  /\ Len(summarized) = NUM_ARTICLES_TO_PROCESS

(***************************************************************************)
(* C6: every optional field that is absent from a filtered article is an   *)
(* empty string (for topics, an empty list) in its record, and neither     *)
(* record assembly nor the report raises.                                  *)
(***************************************************************************)
RecordField(k) ==
  CASE k = "id" -> "id"
    [] k = "title" -> "title"
    [] k = "source_title" -> "source"
    [] k = "pub_date" -> "published"
    [] k = "article_link" -> "url"
    [] k = "language" -> "language"
    [] k = "topics" -> "topics"

C6_AbsentFieldsDefaultAndNeverRaise ==
  /\ \A n \in 1..Len(summarized) : \A k \in MetaFields \ DOMAIN filtered[n] :
       summarized[n][RecordField(k)] = (IF k = "topics" THEN PyList(<<>>) ELSE PyStr(""))
  /\ status # "TypeError"

(***************************************************************************)
(* C7: a run in which the writer raised leaves summarized_articles.json as *)
(* it found it: no file newly created, truncated or partly written.        *)
(***************************************************************************)
C7_FailedWriterLeavesNoFile == Halted("OSError") => outFile = out0

(***************************************************************************)
(* C8: the original_content_length of every record is the number of        *)
(* characters of the content of the article the record was assembled from. *)
(***************************************************************************)
C8_LengthIsContentLength ==
  \A n \in 1..Len(summarized) :
    summarized[n].original_content_length = Len(filtered[n]["content"].v)

\* two records of articles with contents of different lengths
C8_Witness ==
  /\ Len(summarized) >= 2
  /\ summarized[1].original_content_length = Len(S400)
  /\ summarized[2].original_content_length = Len(S300)

(***************************************************************************)
(* C9: without a news key the sample file is downloaded exactly when it is *)
(* not on disk (never when it is, never twice); a list document gives its  *)
(* items as the articles, an object with a `data` key gives that value,    *)
(* and any other document ends the run with ValueError before the filter   *)
(* step or any later step.                                                 *)
(***************************************************************************)
C9_SampleLoader ==
  ndhKey \in {"", NdhPlaceholder} =>
    /\ downloads <= 1
    /\ sample0 # NoFile => downloads = 0 /\ sampleFile = sample0
    /\ (sample0 = NoFile /\ "load" \in steps) => downloads = 1
    /\ pc \notin {"load", "read_sample"} =>
         \/ Halted("HTTPError") /\ sampleFile = NoFile /\ steps = {"load"}
         \/ /\ sampleFile.kind = "dict" /\ "data" \in DOMAIN sampleFile.d
            /\ articles = sampleFile.d["data"]
         \/ /\ sampleFile.kind = "list"
            /\ articles = sampleFile.items
         \/ /\ sampleFile.kind \notin {"list", "nofile"}
            /\ sampleFile.kind = "dict" => "data" \notin DOMAIN sampleFile.d
            /\ Halted("ValueError")
            /\ steps = {"load"}
            /\ calls = <<>>

\* a downloaded document of another shape has ended the run
C9_Witness ==
  /\ ndhKey = ""
  /\ sample0 = NoFile
  /\ downloads = 1
  /\ sampleFile = NoDataDoc
  /\ Halted("ValueError")

(***************************************************************************)
(* C10: completion requests are issued one per article, in order and never *)
(* twice; a request is issued only when every earlier article has its      *)
(* record, so at most one is without its record at any time; and the       *)
(* output file is touched only after the last record of the batch has been *)
(* appended.                                                               *)
(***************************************************************************)
C10_SequentialCallsThenWrite ==
  /\ calls = [n \in 1..Len(calls) |-> n]
  /\ Len(calls) = Len(summarized) + (IF pc \in {"call", "assemble"} THEN 1 ELSE 0)
  /\ Len(calls) <= Len(Batch)
  /\ "write" \in steps => Len(summarized) = Len(Batch) /\ Len(calls) = Len(Batch)
  /\ outFile # out0 => "write" \in steps

\* several calls made, one of them failed, and the file written
C10_Witness ==
  /\ Len(calls) >= 2
  /\ failedCalls # {}
  /\ outFile # out0
  /\ outFile.complete
  /\ outFile.recs = summarized

====
